---- MODULE Spec2Model ----
(***************************************************************************)
(* Model of the research-and-action server: the SSE session registry       *)
(* (server/routes/api.ts, sseClients), the progress publisher              *)
(* (sendSSEUpdate), the POST /research-and-action workflow and the action  *)
(* collaborator (server/services/pica.ts, createGitHubIssue), and the      *)
(* submit flow of the browser client (client/script.js).                   *)
(*                                                                         *)
(* Node runs every handler to its next await without interruption, so one  *)
(* action of the model is one such synchronous segment of a handler.       *)
(* Timestamps (new Date().toISOString()) are left out of every record: no  *)
(* branch of the code reads them.                                          *)
(*                                                                         *)
(* A JavaScript string that the code takes apart or builds with a template *)
(* literal is a sequence of fragments (<<"acme", "/", "widgets">>); a      *)
(* string the code only passes on or tests for truthiness is a TLA+ string.*)
(***************************************************************************)
EXTENDS Integers, Sequences, FiniteSets, TLC

\* ------------------------------------------------------------------ bounds
MaxConns == 2      \* streaming connections accepted in one run
MaxReqs == 1       \* POST /research-and-action requests in one run of Spec
MaxPosts == 2      \* POST /research-and-action requests in one run of SpecIds
MaxClock == 1      \* largest value Date.now() takes in one run
MaxLen == 3        \* fragments of a githubRepo string in one run of SpecAction

Conns == 1..MaxConns
Times == 0..MaxClock   \* the values Date.now() can return
Reqs == 1..MaxPosts

\* ------------------------------------------------------------------ values
Undefined == "undefined"
Sessions == {"s1", "s2"}

\* !x for the string-or-undefined values of the request body
Truthy(s) == s # Undefined /\ s # ""

Str(s) == <<s>>

\* ------------------------------------------------------- Map<string, Response>
\* sseClients is a JavaScript Map: a list of entries in insertion order.
MapHas(m, k) == \E i \in 1..Len(m) : m[i].key = k

MapIndex(m, k) == CHOOSE i \in 1..Len(m) : m[i].key = k /\ \A j \in 1..(i - 1) : m[j].key # k

\* Map.prototype.get: the value of the entry with this key, or undefined (0)
MapGet(m, k) == IF MapHas(m, k) THEN m[MapIndex(m, k)].val ELSE 0

\* variant: a set() that adds an entry without looking for the key
MapSetAppend(m, k, v) == Append(m, [key |-> k, val |-> v])

\* Map.prototype.set: overwrite the value of an existing key, else add an entry
MapSet(m, k, v) ==
    IF MapHas(m, k)
    THEN [m EXCEPT ![MapIndex(m, k)] = [key |-> k, val |-> v]]
    ELSE Append(m, [key |-> k, val |-> v])

\* Map.prototype.delete: drop the entry with this key
MapDelete(m, k) == SelectSeq(m, LAMBDA e : e.key # k)

\* --------------------------------------------------------------- exceptions
NoExc == [thrown |-> FALSE, message |-> <<>>]
Thrown(msg) == [thrown |-> TRUE, message |-> msg]

\* ------------------------------------------------------------------- events
ConnectedEvent == [type |-> "connected", message |-> Str("Connected to research stream")]
StatusEvent(step, msg) == [type |-> "status", step |-> step, message |-> Str(msg)]
CompleteEvent(msg, research, actions) ==
    [type |-> "complete", step |-> "complete", message |-> msg,
     result |-> [research |-> research, actions |-> actions]]
ErrorEvent(msg) == [type |-> "error", message |-> msg]

\* the tag of an event: its step for a status event, its type otherwise
Tag(e) == IF e.type = "status" THEN e.step ELSE e.type

\* --------------------------------------------------------------------- state
VARIABLES
    sseClients,   \* the session registry: Map from session id to connection
    conns,        \* per streaming connection: status and, while it is open, its
                  \* session id and the events written to it
    reqs,         \* per POST request: position in the handler (pc), its locals,
                  \* its response (resp), the number of responses sent for it
                  \* (sent), whether an exception left the handler (escaped),
                  \* and its history: the events it
                  \* published (pubs), the collaborators it called (calls), what
                  \* they answered (outs), whether a write of its events failed
                  \* (wfail), whether a connection of its session closed while it
                  \* was in flight (lost)
    env,          \* process.env, fixed when the process starts
    app           \* the browser client (client/script.js): whether it shows the
                  \* loading state, its session id, its EventSource (es, and
                  \* the server's connection it is attached to: conn), how many
                  \* events of that connection it has handled (seen), where its
                  \* POST stands (post, and the server's request: req),
                  \* whether its EventSource ever lost its connection
                  \* (dropped), and the terminal event it has handled (terminal)

vars == <<sseClients, conns, reqs, env, app>>

NoResponse == [status |-> 0]

IdleRequest ==
    [pc |-> "idle",
     body |-> [parsed |-> TRUE, query |-> Undefined, sessionId |-> Undefined,
               githubRepo |-> [t |-> "undefined", v |-> <<>>]],
     githubRepo |-> [t |-> "undefined", v |-> <<>>],
     sessionId |-> <<>>,
     research |-> [status |-> "none", query |-> Undefined, findings |-> <<>>],
     issue |-> [title |-> <<>>, body |-> <<>>],
     params |-> [title |-> <<>>, body |-> <<>>, owner |-> <<>>, repo |-> <<>>],
     actions |-> <<>>,
     pubs |-> <<>>,
     outs |-> [research |-> [kind |-> "none"], issue |-> [kind |-> "none"], run |-> <<>>],
     wfail |-> FALSE,
     lost |-> FALSE,
     calls |-> [openaiCtor |-> 0, picaCtor |-> 0, research |-> 0, issue |-> 0, action |-> 0],
     resp |-> NoResponse,
     sent |-> 0,
     escaped |-> FALSE]

IdleClient ==
    [loading |-> FALSE, sessionId |-> Undefined, es |-> "none", conn |-> 0, seen |-> 0,
     post |-> "none", req |-> 0, dropped |-> FALSE, terminal |-> "none"]

Init ==
    /\ sseClients = <<>>
    /\ conns = [c \in Conns |-> [status |-> "unused", sid |-> Undefined, log |-> <<>>]]
    /\ reqs = [r \in Reqs |-> IdleRequest]
    /\ env \in [picaSecret : BOOLEAN]
    /\ app = IdleClient

\* -------------------------------------------------- GET /sse/:sessionId
\* variant: the connected event is not written in the handler
SSEInitialWritesNone == <<>>

\* The handler has no await: registration and the connected event are one step.
SSEInitialWrites == <<ConnectedEvent>>

SSEConnect(c, sid) ==
    /\ conns[c].status = "unused"
    /\ \A d \in 1..(c - 1) : conns[d].status # "unused"
    /\ sseClients' = MapSet(sseClients, sid, c)
    /\ conns' = [conns EXCEPT ![c] = [status |-> "open", sid |-> sid, log |-> SSEInitialWrites]]
    /\ UNCHANGED <<reqs, env>>

InFlight(q) == q.pc \in {"research", "issue", "action"}

\* variant: the close handler leaves the registry alone
OnCloseKeep(m, sid) == m

\* variant: the close handler deletes under a key that is not the session id
OnCloseWrongKey(m, sid) == MapDelete(m, Undefined)

\* req.on("close"): the registry entry of the connection's session id is deleted

OnClose(m, sid) == MapDelete(m, sid)

SSEClose(c) ==
    /\ conns[c].status = "open"
    /\ sseClients' = OnClose(sseClients, conns[c].sid)
    /\ conns' = [conns EXCEPT ![c] = [status |-> "closed", sid |-> Undefined, log |-> <<>>]]
    /\ reqs' = [r \in Reqs |->
                    IF InFlight(reqs[r]) /\ reqs[r].body.sessionId = conns[c].sid
                    THEN [reqs[r] EXCEPT !.lost = TRUE] ELSE reqs[r]]
    /\ UNCHANGED env

\* ------------------------------------------------------------ sendSSEUpdate
\* wok: whether client.write succeeds. Its return value is discarded (api.ts:50),
\* and http.ServerResponse.write reports a failed write of a string by returning
\* false, never by throwing.
WriteError == Thrown(Str("write failed"))
NoClientError == Thrown(Str("Cannot read properties of undefined (reading 'write')"))

\* variant: client.write without the test of client
sendSSEUpdateUnguarded(clients, cs, sessionId, data, wok) ==
    LET client == MapGet(clients, sessionId)
    IN  IF client # 0
        THEN [conns |-> [cs EXCEPT ![client].log = Append(@, data)],
              wrote |-> TRUE, failed |-> ~wok, threw |-> NoExc]
        ELSE [conns |-> cs, wrote |-> FALSE, failed |-> FALSE, threw |-> NoClientError]

\* variant: a failed write throws
sendSSEUpdateSurfacing(clients, cs, sessionId, data, wok) ==
    LET client == MapGet(clients, sessionId)
    IN  IF client # 0
        THEN [conns |-> [cs EXCEPT ![client].log = Append(@, data)],
              wrote |-> TRUE, failed |-> ~wok,
              threw |-> IF wok THEN NoExc ELSE WriteError]
        ELSE [conns |-> cs, wrote |-> FALSE, failed |-> FALSE, threw |-> NoExc]

sendSSEUpdate(clients, cs, sessionId, data, wok) ==
    LET client == MapGet(clients, sessionId)
    IN  IF client # 0
        THEN [conns |-> [cs EXCEPT ![client].log = Append(@, data)],
              wrote |-> TRUE, failed |-> ~wok, threw |-> NoExc]
        ELSE [conns |-> cs, wrote |-> FALSE, failed |-> FALSE, threw |-> NoExc]

\* ------------------------------------------------- String.prototype.split("/")
\* A string is a sequence of fragments, "/" being a fragment of its own; the
\* result is the list of the pieces between the separators.
RECURSIVE SplitFrom(_, _, _)
SplitFrom(s, i, piece) ==
    IF i > Len(s) THEN <<piece>>
    ELSE IF s[i] = "/" THEN <<piece>> \o SplitFrom(s, i + 1, <<>>)
    ELSE SplitFrom(s, i + 1, Append(piece, s[i]))

Split(s) == SplitFrom(s, 1, <<>>)

\* let [owner, repo] = githubRepo.split("/"); if (!repo) { owner = ...; repo = githubRepo }
PlaceholderOwner == Str("your-username")
DefaultRepo == [t |-> "string", v |-> Str("test-repo")]

\* variant: no placeholder owner when the repository part is missing
ParseRepoNoPlaceholder(githubRepo) ==
    LET parts == Split(githubRepo)
    IN  [owner |-> parts[1], repo |-> IF Len(parts) < 2 THEN <<>> ELSE parts[2]]

ParseRepo(githubRepo) ==
    LET parts == Split(githubRepo)
        repoMissing == Len(parts) < 2 \/ parts[2] = <<>>
    IN  IF repoMissing
        THEN [owner |-> PlaceholderOwner, repo |-> githubRepo]
        ELSE [owner |-> parts[1], repo |-> parts[2]]

\* ------------------------------------------- PicaService.getGitHubConnection
\* out: what GET /vault/connections?platform=github did.
NoConnection == [connectionKey |-> "null", platform |-> "null"]

getGitHubConnection(out) ==
    CASE out = "rows"   -> [connectionKey |-> "key-1", platform |-> "github"]
      [] out = "empty"  -> NoConnection
      [] out = "err401" -> [connectionKey |-> "mcp-fallback", platform |-> "github"]
      [] OTHER          -> NoConnection

\* --------------------------------------------- PicaService.createGitHubIssue
\* post: what POST /passthrough/repos/:owner/:repo/issues did.
ConnOutcomes == {"rows", "empty", "err401", "errOther"}
PostOutcomes == {"ok", "http401", "http404", "http500", "network", "setup"}

FailedAction(msg) ==
    [type |-> "github_issue", platform |-> "github", success |-> FALSE, error |-> msg]

PostErrorMessage(params, post) ==
    CASE post = "http401" ->
            Str("Authentication failed. Please check your Pica API key and GitHub connection.")
      [] post = "http404" ->
            <<"Repository ">> \o params.owner \o <<"/">> \o params.repo
                \o <<" not found or not accessible.">>
      [] post = "http500" -> <<"GitHub API error: ", "500", " - ", "Internal Server Error">>
      [] post = "network" -> Str("Network error: Unable to reach GitHub API via Pica")
      [] OTHER            -> Str("Request setup failed")

NoConnectionMessage ==
    Str("No GitHub connection found. Please connect GitHub in your Pica dashboard at: https://app.picaos.com/connections")

\* try { ... }: the ActionResult the body returns, or the error it throws (a
\* missing connection, or what this.client.post did)
createGitHubIssueTry(params, connOut, post) ==
    LET githubConnection == getGitHubConnection(connOut)
    IN  IF githubConnection = NoConnection
        THEN [kind |-> "raised", error |-> "noConnection"]
        ELSE IF githubConnection.connectionKey = "mcp-fallback"
        THEN [kind |-> "returned",
              value |-> FailedAction(Str("Pica API authentication issue. Please check your API key at https://app.picaos.com/settings/api-keys and ensure GitHub is connected at https://app.picaos.com/connections"))]
        ELSE IF post = "ok"
        THEN [kind |-> "returned",
              value |-> [type |-> "github_issue", platform |-> "github", success |-> TRUE,
                         result |-> [issueNumber |-> 1,
                                     issueUrl |-> "https://github.com/issues/1",
                                     title |-> params.title,
                                     repository |-> params.owner \o <<"/">> \o params.repo]]]
        ELSE [kind |-> "raised", error |-> post]

\* catch (error) { ... errorMessage ... }
CatchMessage(params, error) ==
    IF error = "noConnection" THEN NoConnectionMessage ELSE PostErrorMessage(params, error)

\* variant: without the catch, the error leaves the method
createGitHubIssueNoCatch(params, connOut, post) ==
    LET t == createGitHubIssueTry(params, connOut, post)
    IN  IF t.kind = "raised"
        THEN [kind |-> "raised", message |-> CatchMessage(params, t.error)]
        ELSE t

\* The outcome of the call: the ActionResult returned; the catch turns every
\* error into a failed ActionResult.
createGitHubIssue(params, connOut, post) ==
    LET t == createGitHubIssueTry(params, connOut, post)
    IN  IF t.kind = "raised"
        THEN [kind |-> "returned", value |-> FailedAction(CatchMessage(params, t.error))]
        ELSE t

\* ------------------------------------------------ POST /research-and-action
\* The handler runs in four synchronous segments, one up to each await. A
\* segment is a chain of statements over m = [conns, r, exc]: the connections,
\* the request's locals and the pending exception. A statement after a throw
\* does nothing; Catch is the handler's catch block.

\* if (sessionId) { sendSSEUpdate(sessionId, data) }
Publish(m, clients, data, wok) ==
    IF m.exc.thrown \/ ~Truthy(m.r.body.sessionId) THEN m
    ELSE LET res == sendSSEUpdate(clients, m.conns, m.r.body.sessionId, data, wok)
         IN  [conns |-> res.conns,
              r |-> [m.r EXCEPT !.pubs = Append(@, data),
                                !.wfail = @ \/ res.failed],
              exc |-> res.threw]

\* server/index.ts: the error-handling middleware answers a rejected handler
MiddlewareResponse ==
    [status |-> 500, body |-> [error |-> "Internal server error"]]

ErrorResponse(msg) ==
    [status |-> 500,
     body |-> [success |-> FALSE, error |-> "Research and action workflow failed",
               details |-> msg]]

\* catch (error) { ... const { sessionId } = req.body; sendSSEUpdate(error) ...
\* res.status(500).json(errorResponse) }: destructuring an undefined req.body
\* throws a TypeError.
\* An exception thrown inside the catch block leaves the handler: its promise
\* rejects and the error-handling middleware answers.
Escape(m) ==
    [m EXCEPT !.r.pc = "done", !.r.resp = MiddlewareResponse, !.r.sent = @ + 1,
              !.r.escaped = TRUE, !.exc = NoExc]

Catch(m, clients, wok) ==
    IF ~m.exc.thrown THEN m
    ELSE IF ~m.r.body.parsed THEN Escape(m)
    ELSE LET msg == m.exc.message
             p == Publish([m EXCEPT !.exc = NoExc], clients, ErrorEvent(msg), wok)
         IN  IF p.exc.thrown THEN Escape(p)
             ELSE [p EXCEPT !.r.pc = "done", !.r.resp = ErrorResponse(msg),
                            !.r.sent = @ + 1]

\* createOpenAIService(); createPicaService() throws without PICA_SECRET
Construct(m, e) ==
    IF m.exc.thrown THEN m
    ELSE IF ~e.picaSecret
    THEN [m EXCEPT !.r.calls.openaiCtor = @ + 1,
                   !.exc = Thrown(Str("PICA_SECRET environment variable is required"))]
    ELSE [m EXCEPT !.r.calls.openaiCtor = @ + 1, !.r.calls.picaCtor = @ + 1]

\* the call expression of an await: the collaborator is invoked, the handler waits
Call(m, what, pc) ==
    IF m.exc.thrown THEN m
    ELSE [m EXCEPT !.r.calls[what] = @ + 1, !.r.pc = pc]

\* sessionId || `session_${Date.now()}`
SessionIdOf(sessionId, t) ==
    IF Truthy(sessionId) THEN Str(sessionId) ELSE <<"session_", t>>

ValidationResponse ==
    [status |-> 400,
     body |-> [error |-> "Query is required",
               details |-> Str("Please provide a research query")]]

\* variant: the query is not validated
QueryRejectedNever(query) == FALSE

\* if (!query) return res.status(400)...

QueryRejected(query) == ~Truthy(query)

\* const { query, sessionId, githubRepo = "test-repo" } = req.body, with
\* req.body undefined
DestructureError ==
    Thrown(Str("Cannot destructure property 'query' of 'req.body' as it is undefined."))

\* api.ts:56-108, up to await openaiService.generateResearch(researchQuery)
Segment1(m, clients, e, t, wok) ==
    IF ~m.r.body.parsed
    THEN Catch([m EXCEPT !.exc = DestructureError], clients, wok)
    ELSE IF QueryRejected(m.r.body.query)
    THEN [m EXCEPT !.r.pc = "done", !.r.resp = ValidationResponse, !.r.sent = @ + 1]
    ELSE LET m1 == [m EXCEPT !.r.sessionId = SessionIdOf(m.r.body.sessionId, t)]
             m2 == Construct(m1, e)
             m3 == Publish(m2, clients, StatusEvent("analyzing", "Analyzing your query..."), wok)
             m4 == Publish(m3, clients,
                           StatusEvent("researching", "Conducting deep research with OpenAI..."),
                           wok)
             m5 == Call(m4, "research", "research")
         IN  Catch(m5, clients, wok)

\* the value of an await: the collaborator's result, or its exception rethrown
Resume(m, out) ==
    IF out.kind = "raised" THEN [m EXCEPT !.exc = Thrown(out.message)] ELSE m

\* variant: the status of the research result is not looked at
ThrowIfFailedNever(m) == m

\* if (researchResult.status === "failed") throw new Error(researchResult.findings)

ThrowIfFailed(m) ==
    IF m.exc.thrown THEN m
    ELSE IF m.r.research.status = "failed"
    THEN [m EXCEPT !.exc = Thrown(m.r.research.findings)]
    ELSE m

\* variant: the planning event is not published
Segment2SkipsPlanning(m, clients, out, wok) ==
    LET m1 == Resume(m, out)
        m2 == IF m1.exc.thrown THEN m1
              ELSE [m1 EXCEPT !.r.research = [status |-> out.status,
                                              query |-> m.r.body.query,
                                              findings |-> out.findings]]
        m3 == ThrowIfFailed(m2)
        m5 == Call(m3, "issue", "issue")
    IN  Catch(m5, clients, wok)

\* api.ts:108-127, from the research result to await generateGitHubIssueContent
Segment2(m, clients, out, wok) ==
    LET m1 == Resume(m, out)
        m2 == IF m1.exc.thrown THEN m1
              ELSE [m1 EXCEPT !.r.research = [status |-> out.status,
                                              query |-> m.r.body.query,
                                              findings |-> out.findings]]
        m3 == ThrowIfFailed(m2)
        m4 == Publish(m3, clients,
                      StatusEvent("planning", "Planning GitHub issue creation..."), wok)
        m5 == Call(m4, "issue", "issue")
    IN  Catch(m5, clients, wok)

\* let [owner, repo] = githubRepo.split("/") ...: a githubRepo that is no string
\* has no split method
SplitRepo(m) ==
    IF m.exc.thrown THEN m
    ELSE IF m.r.githubRepo.t # "string"
    THEN [m EXCEPT !.exc = Thrown(Str("githubRepo.split is not a function"))]
    ELSE LET parsed == ParseRepo(m.r.githubRepo.v)
         IN  [m EXCEPT !.r.params = [title |-> m.r.issue.title, body |-> m.r.issue.body,
                                     owner |-> parsed.owner, repo |-> parsed.repo]]

\* variant: a failed issue formatting is called again
Segment3Retries(m, clients, out, wok) ==
    IF out.kind = "raised" THEN Call(m, "issue", "issue")
    ELSE LET m2 == [m EXCEPT !.r.issue = [title |-> out.title, body |-> out.body]]
             m3 == Publish(m2, clients, StatusEvent("executing", "Creating GitHub issue..."),
                           wok)
             m4 == SplitRepo(m3)
             m5 == Call(m4, "action", "action")
         IN  Catch(m5, clients, wok)

\* api.ts:124-153, from the issue content to await picaService.createGitHubIssue
Segment3(m, clients, out, wok) ==
    LET m1 == Resume(m, out)
        m2 == IF m1.exc.thrown THEN m1
              ELSE [m1 EXCEPT !.r.issue = [title |-> out.title, body |-> out.body]]
        m3 == Publish(m2, clients, StatusEvent("executing", "Creating GitHub issue..."), wok)
        m4 == SplitRepo(m3)
        m5 == Call(m4, "action", "action")
    IN  Catch(m5, clients, wok)

CompleteMessage(githubAction) ==
    IF githubAction.success
    THEN Str("GitHub issue created successfully!")
    ELSE <<"GitHub issue creation failed: ">> \o githubAction.error

\* variant: the summary reports the research as completed without looking
SuccessResponseCompleted(r, githubAction) ==
    [status |-> 200,
     body |-> [success |-> TRUE,
               sessionId |-> r.sessionId,
               research |-> r.research,
               actions |-> r.actions,
               summary |-> [query |-> r.body.query,
                            researchCompleted |-> TRUE,
                            actionsExecuted |-> Len(r.actions),
                            successfulActions |->
                                Cardinality({i \in 1..Len(r.actions) : r.actions[i].success}),
                            githubIssueUrl |->
                                IF githubAction.success THEN githubAction.result.issueUrl
                                ELSE "null"]]]

\* res.json({ success: true, sessionId, research, actions, summary })
SuccessResponse(r, githubAction) ==
    [status |-> 200,
     body |-> [success |-> TRUE,
               sessionId |-> r.sessionId,
               research |-> r.research,
               actions |-> r.actions,
               summary |-> [query |-> r.body.query,
                            researchCompleted |-> r.research.status = "completed",
                            actionsExecuted |-> Len(r.actions),
                            successfulActions |->
                                Cardinality({i \in 1..Len(r.actions) : r.actions[i].success}),
                            githubIssueUrl |->
                                IF githubAction.success THEN githubAction.result.issueUrl
                                ELSE "null"]]]

\* variant: res.json throws
RespondThrows(m, githubAction) ==
    IF m.exc.thrown THEN m
    ELSE [m EXCEPT !.exc = Thrown(Str("Converting circular structure to JSON"))]

\* res.json({ success: true, ... })
Respond(m, githubAction) ==
    IF m.exc.thrown THEN m
    ELSE [m EXCEPT !.r.pc = "done", !.r.resp = SuccessResponse(m.r, githubAction),
                   !.r.sent = @ + 1]

\* variant: an action result with success false is thrown
PushActionOrThrow(m, githubAction) ==
    IF m.exc.thrown THEN m
    ELSE IF ~githubAction.success THEN [m EXCEPT !.exc = Thrown(githubAction.error)]
    ELSE [m EXCEPT !.r.actions = Append(@, githubAction)]

\* actionResults.push(githubAction)
PushAction(m, githubAction) ==
    IF m.exc.thrown THEN m
    ELSE [m EXCEPT !.r.actions = Append(@, githubAction)]

\* api.ts:148-188, from the action result to res.json
Segment4(m, clients, connOut, post, wok) ==
    LET out == createGitHubIssue(m.r.params, connOut, post)
        githubAction == out.value
        m0 == Resume(m, out)
        m1 == PushAction(m0, githubAction)
        m2 == Publish(m1, clients,
                      CompleteEvent(CompleteMessage(githubAction), m1.r.research, m1.r.actions),
                      wok)
        m3 == Respond(m2, githubAction)
    IN  Catch(m3, clients, wok)

\* ------------------------------------------------------------------- inputs
\* Request bodies: query and sessionId absent, empty or set; githubRepo absent
\* (the bare name "test-repo" then), "owner/repo", or a JSON number. NoBody is
\* the request without a JSON body: Express 5 (README.md:16) leaves req.body
\* undefined when no body was parsed.
Queries == {Undefined, "", "Research X"}
SessionIds == {Undefined} \cup Sessions
RepoInputs ==
    {[t |-> "undefined", v |-> <<>>],
     [t |-> "string", v |-> <<"acme", "/", "widgets">>],
     [t |-> "number", v |-> <<>>]}
NoBody ==
    [parsed |-> FALSE, query |-> Undefined, sessionId |-> Undefined,
     githubRepo |-> [t |-> "undefined", v |-> <<>>]]
Bodies ==
    {b \in [parsed : {TRUE}, query : Queries, sessionId : SessionIds,
            githubRepo : RepoInputs] :
        Truthy(b.query) \/ b.githubRepo.t = "undefined"} \cup {NoBody}

\* What generateResearch and generateGitHubIssueContent can do (§6 of the
\* specification: return a result, possibly with status failed, or raise).
ResearchOutcomes ==
    {[kind |-> "returned", status |-> "completed", findings |-> Str("findings A")],
     [kind |-> "returned", status |-> "pending", findings |-> Str("findings A")],
     [kind |-> "returned", status |-> "failed", findings |-> Str("upstream unavailable")],
     [kind |-> "returned", status |-> "failed", findings |-> Str("rate limited")],
     [kind |-> "raised", message |-> Str("research request failed")]}

IssueOutcomes ==
    {[kind |-> "returned", title |-> Str("Issue title"), body |-> Str("Issue body")],
     [kind |-> "raised", message |-> Str("issue formatting failed")]}

\* What the two Pica calls of createGitHubIssue do in a workflow: an issue
\* created, no GitHub connection, a repository that is not found.
ActionRuns == {<<"rows", "ok">>, <<"empty", "ok">>, <<"rows", "http404">>}

\* Every input and outcome above: the inputs of one workflow.
AllInputs ==
    [bodies |-> Bodies, research |-> ResearchOutcomes, issue |-> IssueOutcomes,
     runs |-> ActionRuns, writes |-> BOOLEAN]

\* One input per path through the handler, every write succeeding: the inputs
\* of concurrent workflows.
PathInputs ==
    [bodies |-> {b \in Bodies : b.query # Undefined /\ b.githubRepo.t = "undefined"},
     research |-> {o \in ResearchOutcomes :
                      o.kind = "raised" \/ (o.findings # Str("rate limited") /\ o.status # "pending")},
     issue |-> IssueOutcomes,
     runs |-> {<<"rows", "ok">>, <<"empty", "ok">>}, writes |-> {TRUE}]

\* ------------------------------------------------------------------ actions
\* githubRepo = "test-repo" in the destructuring of req.body; no local is
\* assigned when the destructuring throws
Received(body) ==
    [IdleRequest EXCEPT !.body = body,
                        !.githubRepo = IF ~body.parsed THEN body.githubRepo
                                       ELSE IF body.githubRepo.t = "undefined"
                                       THEN DefaultRepo
                                       ELSE body.githubRepo]

\* whether the writes of a segment succeed; a segment that writes nothing has
\* no failing write
WriteOutcomes(sessionId, in) ==
    IF MapHas(sseClients, sessionId) THEN in.writes ELSE {TRUE}

Commit(r, m) ==
    /\ reqs' = [reqs EXCEPT ![r] = m.r]
    /\ conns' = m.conns

Start(r, in) ==
    /\ reqs[r].pc = "idle"
    /\ \A d \in 1..(r - 1) : reqs[d].pc # "idle"
    /\ \E body \in in.bodies, t \in Times :
       \E wok \in WriteOutcomes(body.sessionId, in) :
          LET readsClock == Truthy(body.query) /\ ~Truthy(body.sessionId)
              m == [conns |-> conns, r |-> Received(body), exc |-> NoExc]
          IN  /\ readsClock \/ t = 0
              /\ Commit(r, Segment1(m, sseClients, env, t, wok))
    /\ UNCHANGED <<sseClients, env>>

ResearchReturns(r, in) ==
    /\ reqs[r].pc = "research"
    /\ \E out \in in.research, wok \in WriteOutcomes(reqs[r].body.sessionId, in) :
          Commit(r, Segment2([conns |-> conns, exc |-> NoExc,
                              r |-> [reqs[r] EXCEPT !.outs.research = out]],
                             sseClients, out, wok))
    /\ UNCHANGED <<sseClients, env>>

IssueReturns(r, in) ==
    /\ reqs[r].pc = "issue"
    /\ \E out \in in.issue, wok \in WriteOutcomes(reqs[r].body.sessionId, in) :
          Commit(r, Segment3([conns |-> conns, exc |-> NoExc,
                              r |-> [reqs[r] EXCEPT !.outs.issue = out]],
                             sseClients, out, wok))
    /\ UNCHANGED <<sseClients, env>>

ActionReturns(r, in) ==
    /\ reqs[r].pc = "action"
    /\ \E run \in in.runs, wok \in WriteOutcomes(reqs[r].body.sessionId, in) :
          Commit(r, Segment4([conns |-> conns, exc |-> NoExc,
                              r |-> [reqs[r] EXCEPT !.outs.run = run]],
                             sseClients, run[1], run[2], wok))
    /\ UNCHANGED <<sseClients, env>>

\* Concurrent workflows and connections.
Next ==
    \/ \E c \in Conns, sid \in Sessions : SSEConnect(c, sid) /\ UNCHANGED app
    \/ \E c \in Conns : SSEClose(c) /\ UNCHANGED app
    \/ \E r \in 1..MaxReqs : Start(r, PathInputs) /\ UNCHANGED app
    \/ \E r \in 1..MaxReqs : ResearchReturns(r, PathInputs) /\ UNCHANGED app
    \/ \E r \in 1..MaxReqs : IssueReturns(r, PathInputs) /\ UNCHANGED app
    \/ \E r \in 1..MaxReqs : ActionReturns(r, PathInputs) /\ UNCHANGED app

Spec == Init /\ [][Next]_vars

\* One workflow, on every input, among the connections' opens and closes.
NextWorkflow ==
    \/ \E c \in Conns, sid \in Sessions : SSEConnect(c, sid) /\ UNCHANGED app
    \/ \E c \in Conns : SSEClose(c) /\ UNCHANGED app
    \/ Start(1, AllInputs) /\ UNCHANGED app
    \/ ResearchReturns(1, AllInputs) /\ UNCHANGED app
    \/ IssueReturns(1, AllInputs) /\ UNCHANGED app
    \/ ActionReturns(1, AllInputs) /\ UNCHANGED app

SpecWorkflow == Init /\ [][NextWorkflow]_vars

\* Successful workflows of requests with and without a session id, no
\* connection open: the session ids of the requests of one run.
IdInputs ==
    [bodies |-> {b \in Bodies : b.query = "Research X" /\ b.sessionId # "s2"
                                  /\ b.githubRepo.t = "undefined"},
     research |-> {o \in ResearchOutcomes : o.kind = "returned" /\ o.status = "completed"},
     issue |-> {o \in IssueOutcomes : o.kind = "returned"},
     runs |-> {<<"rows", "ok">>}, writes |-> {TRUE}]

NextIds ==
    \/ \E r \in Reqs : Start(r, IdInputs) /\ UNCHANGED app
    \/ \E r \in Reqs : ResearchReturns(r, IdInputs) /\ UNCHANGED app
    \/ \E r \in Reqs : IssueReturns(r, IdInputs) /\ UNCHANGED app
    \/ \E r \in Reqs : ActionReturns(r, IdInputs) /\ UNCHANGED app

SpecIds == Init /\ [][NextIds]_vars

\* One workflow on every githubRepo string of up to MaxLen fragments and every
\* outcome of the two Pica calls, no connection open: the owner and repo handed
\* to createGitHubIssue, and what it returns.
Fragments == {"acme", "widgets", "/"}
RepoStrings == UNION {[1..n -> Fragments] : n \in 0..MaxLen}

ActionInputs ==
    [bodies |-> {[parsed |-> TRUE, query |-> "Research X", sessionId |-> Undefined,
                  githubRepo |-> d] :
                    d \in {[t |-> "undefined", v |-> <<>>]}
                            \cup {[t |-> "string", v |-> v] : v \in RepoStrings}},
     research |-> {o \in ResearchOutcomes : o.kind = "returned" /\ o.status = "completed"},
     issue |-> {o \in IssueOutcomes : o.kind = "returned"},
     runs |-> ConnOutcomes \X PostOutcomes, writes |-> {TRUE}]

NextAction ==
    \/ Start(1, ActionInputs) /\ UNCHANGED app
    \/ ResearchReturns(1, ActionInputs) /\ UNCHANGED app
    \/ IssueReturns(1, ActionInputs) /\ UNCHANGED app
    \/ ActionReturns(1, ActionInputs) /\ UNCHANGED app

SpecAction == Init /\ [][NextAction]_vars

\* ------------------------------------------------- client/script.js
\* handleSubmit with a non-empty query: setLoading(true), a fresh session id,
\* setupSSEConnection (new EventSource: the GET is on its way) and
\* performResearchAndAction up to its await fetch (the POST is on its way).
\* Nothing orders the arrival of the two requests at the server.
HandleSubmit ==
    /\ app = IdleClient
    /\ \E sid \in Sessions :
          app' = [app EXCEPT !.loading = TRUE, !.sessionId = sid,
                             !.es = "connecting", !.post = "sent"]
    /\ UNCHANGED <<sseClients, conns, reqs, env>>

\* body: JSON.stringify({ query, sessionId: this.currentSessionId, githubRepo })
\* with githubRepo = this.repoInput.value.trim() || "test-research-repo"
ClientBody ==
    [parsed |-> TRUE, query |-> "Research X", sessionId |-> app.sessionId,
     githubRepo |-> [t |-> "string", v |-> Str("test-research-repo")]]

ClientInputs ==
    [bodies |-> {ClientBody}, research |-> PathInputs.research, issue |-> IssueOutcomes,
     runs |-> PathInputs.runs, writes |-> {TRUE}]

\* the server accepts the GET of the EventSource, the first or a reconnection
GetArrives(c) ==
    /\ app.es = "connecting"
    /\ SSEConnect(c, app.sessionId)
    /\ app' = [app EXCEPT !.es = "open", !.conn = c, !.seen = 0]

\* the server's handler starts on the POST of fetch
PostArrives(r) ==
    /\ app.post = "sent"
    /\ Start(r, ClientInputs)
    /\ app' = [app EXCEPT !.post = "pending", !.req = r]

\* eventSource.onmessage -> handleSSEUpdate(data): the next event written to
\* the connection. complete: handleResearchComplete(result), which ends with
\* this.eventSource.close(), then setLoading(false); error: addResultItem and
\* setLoading(false), the EventSource stays as it is.
handleSSEUpdate(a, data) ==
    CASE data.type = "complete" ->
            [a EXCEPT !.seen = @ + 1, !.loading = FALSE, !.es = "closed",
                      !.terminal = "complete"]
      [] data.type = "error" ->
            [a EXCEPT !.seen = @ + 1, !.loading = FALSE, !.terminal = "error"]
      [] OTHER -> [a EXCEPT !.seen = @ + 1]

OnMessage ==
    /\ app.es = "open"
    /\ app.seen < Len(conns[app.conn].log)
    /\ app' = handleSSEUpdate(app, conns[app.conn].log[app.seen + 1])
    /\ UNCHANGED <<sseClients, conns, reqs, env>>

\* The connection of the EventSource is lost: the server's close handler runs,
\* the events not yet handled are gone, and the EventSource connects again to
\* the same URL (eventSource.onerror only logs).
ConnectionLost ==
    /\ app.es = "open"
    /\ SSEClose(app.conn)
    /\ app' = [app EXCEPT !.es = "connecting", !.conn = 0, !.seen = 0, !.dropped = TRUE]

\* The server sees the connection of an EventSource that the client has closed
\* go away: its close handler runs.
StreamClosed ==
    /\ app.es = "closed"
    /\ SSEClose(app.conn)
    /\ UNCHANGED app

\* performResearchAndAction after await fetch: if (!data.success) throw, which
\* handleSubmit catches with setLoading(false); a success is only logged
PostAnswered ==
    /\ app.post = "pending"
    /\ reqs[app.req].pc = "done"
    /\ LET data == reqs[app.req].resp.body
           success == "success" \in DOMAIN data /\ data.success
       IN  app' = [app EXCEPT !.post = "answered",
                              !.loading = IF success THEN @ ELSE FALSE]
    /\ UNCHANGED <<sseClients, conns, reqs, env>>

\* One submit of the browser client against the server.
NextClient ==
    \/ HandleSubmit
    \/ \E c \in Conns : GetArrives(c)
    \/ \E r \in Reqs : PostArrives(r)
    \/ \E r \in Reqs : ResearchReturns(r, ClientInputs) /\ UNCHANGED app
    \/ \E r \in Reqs : IssueReturns(r, ClientInputs) /\ UNCHANGED app
    \/ \E r \in Reqs : ActionReturns(r, ClientInputs) /\ UNCHANGED app
    \/ OnMessage
    \/ ConnectionLost
    \/ StreamClosed
    \/ PostAnswered

SpecClient == Init /\ [][NextClient]_vars

\* ============================================================== properties
StageOrder == <<"analyzing", "researching", "planning", "executing", "complete">>

Tags(events) == [i \in 1..Len(events) |-> Tag(events[i])]

IsPrefix(a, b) == Len(a) <= Len(b) /\ a = SubSeq(b, 1, Len(a))

\* a is b[k+1 .. k+Len(a)] for some k
IsSegment(a, b) ==
    \E k \in 0..Len(b) : k + Len(a) <= Len(b) /\ a = SubSeq(b, k + 1, k + Len(a))

Done(q) == q.pc = "done"
HasSession(q) == Truthy(q.body.sessionId)
Started(q) == q.pc # "idle" /\ Truthy(q.body.query)
Terminal(e) == e.type \in {"complete", "error"}

OpenFor(sid) == {c \in Conns : conns[c].status = "open" /\ conns[c].sid = sid}

\* C1: a request with a query and a session id publishes analyzing, researching,
\* planning, executing, complete in this order; a run that answers 200 has
\* published all five, each once; a run that fails has published a prefix of
\* the four stages and then error; and what a connection of the session has
\* received after its connected event is a run of consecutive published events.
C1_StageOrder ==
    \A r \in Reqs :
        LET q == reqs[r]
            t == Tags(q.pubs)
        IN  (Started(q) /\ HasSession(q)) =>
              /\ \/ IsPrefix(t, StageOrder)
                 \/ \E k \in 0..4 : t = SubSeq(StageOrder, 1, k) \o <<"error">>
              /\ (Done(q) /\ q.resp.status = 200) => t = StageOrder
              /\ (Done(q) /\ q.resp.status # 200) => t[Len(t)] = "error"
              /\ \A c \in OpenFor(q.body.sessionId) :
                    IsSegment(Tags(Tail(conns[c].log)), t)

\* a registered session receives all five events of a successful run
C1_Witness ==
    \E r \in Reqs, c \in Conns :
        /\ Done(reqs[r]) /\ reqs[r].resp.status = 200
        /\ conns[c].status = "open" /\ conns[c].sid = reqs[r].body.sessionId
        /\ Tags(conns[c].log) = <<"connected">> \o StageOrder

\* C2: a workflow with a session id publishes at most one terminal event
\* (complete or error), nothing after it, and exactly one, as its last event,
\* once it has answered; a complete event is never followed by an error event.
C2_OneTerminalEvent ==
    \A r \in Reqs :
        LET q == reqs[r]
            terminals == {i \in 1..Len(q.pubs) : Terminal(q.pubs[i])}
        IN  (Started(q) /\ HasSession(q)) =>
              /\ terminals \subseteq {Len(q.pubs)}
              /\ Done(q) <=> terminals # {}
              /\ \A i, j \in 1..Len(q.pubs) :
                    (q.pubs[i].type = "complete" /\ q.pubs[j].type = "error") => j < i

\* a run ended by a failure of the issue formatting: error is its one terminal event
C2_Witness ==
    \E r \in Reqs :
        /\ Done(reqs[r])
        /\ Tags(reqs[r].pubs) = <<"analyzing", "researching", "planning", "error">>

\* the ActionResult the action collaborator returned to the workflow
ActionReturned(q) == createGitHubIssue(q.params, q.outs.run[1], q.outs.run[2]).value

\* C4: when the action collaborator returns success = false, the response is
\* 200 with success: true and actions[0].success = false, and the terminal
\* event published is complete.
C4_FailedActionIsNotAFailure ==
    \A r \in Reqs :
        LET q == reqs[r]
        IN  (q.outs.run # <<>> /\ ~ActionReturned(q).success) =>
              /\ Done(q)
              /\ q.resp.status = 200
              /\ q.resp.body.success
              /\ Len(q.resp.body.actions) = 1
              /\ q.resp.body.actions[1] = ActionReturned(q)
              /\ ~q.resp.body.actions[1].success
              /\ HasSession(q) => Tags(q.pubs) = StageOrder

\* a repository that is not found: the action failed, the workflow did not
C4_Witness ==
    \E r \in Reqs :
        /\ Done(reqs[r]) /\ HasSession(reqs[r])
        /\ reqs[r].outs.run = <<"rows", "http404">>
        /\ reqs[r].resp.status = 200
        /\ reqs[r].pubs[5].message =
              <<"GitHub issue creation failed: ", "Repository ", "acme", "/", "widgets",
                " not found or not accessible.">>

NoCalls == [openaiCtor |-> 0, picaCtor |-> 0, research |-> 0, issue |-> 0, action |-> 0]

C6_FailedResearch ==
    \A r \in Reqs :
        LET q == reqs[r]
            out == q.outs.research
        IN  (out.kind = "returned" /\ out.status = "failed") =>
              /\ Done(q)
              /\ q.resp.status = 500
              /\ q.resp.body.success = FALSE
              /\ q.resp.body.details = out.findings
              /\ q.calls.issue = 0 /\ q.calls.action = 0
              /\ HasSession(q) =>
                    /\ Tags(q.pubs) = <<"analyzing", "researching", "error">>
                    /\ q.pubs[3].message = out.findings

\* "upstream unavailable" reaches the session's connection as the error message
C6_Witness ==
    \E r \in Reqs, c \in Conns :
        /\ Done(reqs[r])
        /\ reqs[r].outs.research.kind = "returned"
        /\ reqs[r].outs.research.status = "failed"
        /\ conns[c].status = "open" /\ conns[c].sid = reqs[r].body.sessionId
        /\ Tags(conns[c].log) = <<"connected", "analyzing", "researching", "error">>
        /\ conns[c].log[4].message = Str("upstream unavailable")

\* What the handler answers and calls on the body and the collaborator answers
\* of request q when its session stays registered and every write succeeds:
\* the segments q has run, run again on a registry holding only q's session.
ReplayClients(q) ==
    IF HasSession(q) THEN <<[key |-> q.body.sessionId, val |-> 1]>> ELSE <<>>

ReplayTime(q) == IF Len(q.sessionId) = 2 THEN q.sessionId[2] ELSE 0

Replay1(q) ==
    Segment1([conns |-> [c \in Conns |-> [status |-> "open", sid |-> q.body.sessionId,
                                          log |-> <<>>]],
              r |-> Received(q.body), exc |-> NoExc],
             ReplayClients(q), env, ReplayTime(q), TRUE)

Replay2(q) ==
    LET m == Replay1(q)
    IN  IF m.r.pc = "research" /\ q.outs.research.kind # "none"
        THEN Segment2([m EXCEPT !.r.outs.research = q.outs.research],
                      ReplayClients(q), q.outs.research, TRUE)
        ELSE m

Replay3(q) ==
    LET m == Replay2(q)
    IN  IF m.r.pc = "issue" /\ q.outs.issue.kind # "none"
        THEN Segment3([m EXCEPT !.r.outs.issue = q.outs.issue],
                      ReplayClients(q), q.outs.issue, TRUE)
        ELSE m

Replay(q) ==
    LET m == Replay3(q)
    IN  IF m.r.pc = "action" /\ q.outs.run # <<>>
        THEN Segment4([m EXCEPT !.r.outs.run = q.outs.run],
                      ReplayClients(q), q.outs.run[1], q.outs.run[2], TRUE).r
        ELSE m.r

\* the position, response, collaborator calls and published events of a
\* request, and whether an exception left its handler
Outcome(q) ==
    [pc |-> q.pc, resp |-> q.resp, calls |-> q.calls, pubs |-> q.pubs,
     escaped |-> q.escaped]

\* C7: a failed write of an event changes nothing for the workflow: whatever
\* writes failed, the request is where it would be, has called the collaborators
\* it would have called and has answered what it would have answered, had every
\* write succeeded, and no exception leaves the handler that would not have.
C7_WriteFailureNotSurfaced ==
    \A r \in Reqs :
        LET q == reqs[r]
        IN  q.pc # "idle" => Outcome(q) = Outcome(Replay(q))

\* every stage's write may have failed: the workflow completed all the same
C7_Witness ==
    \E r \in Reqs, c \in Conns :
        /\ Done(reqs[r]) /\ reqs[r].wfail
        /\ reqs[r].resp.status = 200
        /\ reqs[r].calls = [openaiCtor |-> 1, picaCtor |-> 1, research |-> 1,
                            issue |-> 1, action |-> 1]
        /\ conns[c].status = "open" /\ conns[c].sid = reqs[r].body.sessionId
        /\ Tags(conns[c].log) = <<"connected">> \o StageOrder

\* the steps of request r that publish: its history of published events grows
Publishes(r) == Len(reqs'[r].pubs) > Len(reqs[r].pubs)

Unregistered(sessionId) == ~MapHas(sseClients, sessionId)

\* where a request stands after it has published an event and met no failure
AfterPublishing(q) ==
    LET last == Tag(q.pubs[Len(q.pubs)])
    IN  CASE last = "researching" -> q.pc = "research"
          [] last = "planning"    -> q.pc = "issue"
          [] last = "executing"   -> q.pc = "action"
          [] last = "complete"    -> q.pc = "done" /\ q.resp.status = 200
          [] last = "error"       -> q.pc = "done" /\ q.resp.status = 500
                                       /\ q.resp.body.details = q.pubs[Len(q.pubs)].message
          [] OTHER                -> FALSE

\* C3: publishing for a session id without a registry entry (none was made, or
\* the connection closed) writes to no connection and raises nothing: the
\* request goes on to its next await or to its response.
C3_PublishUnregistered ==
    [][\A r \in Reqs :
          (Publishes(r) /\ Unregistered(reqs'[r].body.sessionId)) =>
              /\ conns' = conns
              /\ sseClients' = sseClients
              /\ ~reqs'[r].escaped
              /\ AfterPublishing(reqs'[r])]_vars

\* a workflow ran to completion for a session id that no connection ever had
C3_Witness ==
    \E r \in Reqs :
        /\ Done(reqs[r]) /\ HasSession(reqs[r])
        /\ Tags(reqs[r].pubs) = StageOrder
        /\ reqs[r].resp.status = 200
        /\ \A c \in Conns : conns[c].status = "unused"

\* C8: the registry holds at most one connection per session id, an open one
\* and the newest open one of that id; a publish writes to the registered
\* connection only; when a connection closes, a lookup of its id finds nothing.
C8_Registry ==
    /\ [](/\ \A i, j \in 1..Len(sseClients) :
                sseClients[i].key = sseClients[j].key => i = j
          /\ \A i \in 1..Len(sseClients) :
                LET c == sseClients[i].val
                IN  /\ conns[c].status = "open"
                    /\ conns[c].sid = sseClients[i].key
                    /\ \A d \in OpenFor(sseClients[i].key) : d <= c)
    /\ [][/\ \A sid \in Sessions, c \in Conns :
                (conns[c].status = "unused" /\ conns'[c].status = "open"
                    /\ conns'[c].sid = sid) => MapGet(sseClients', sid) = c
          /\ \A r \in Reqs, c \in Conns :
                (Publishes(r) /\ conns'[c] # conns[c]) =>
                    /\ c = MapGet(sseClients, reqs'[r].body.sessionId)
                    /\ \A d \in OpenFor(reqs'[r].body.sessionId) : d <= c
          /\ \A c \in Conns :
                (conns[c].status = "open" /\ conns'[c].status = "closed") =>
                    MapGet(sseClients', conns[c].sid) = 0]_vars

\* two open connections of one session: the newer one received the events
C8_Witness ==
    \E r \in Reqs, c, d \in Conns :
        /\ c < d
        /\ conns[c].status = "open" /\ conns[d].status = "open"
        /\ conns[c].sid = conns[d].sid /\ conns[c].sid = reqs[r].body.sessionId
        /\ conns[c].log = <<ConnectedEvent>>
        /\ Tags(conns[d].log) = <<"connected">> \o StageOrder
        /\ Len(sseClients) = 1

\* C9: the first event written to a connection is connected, and no other
\* event of its log is: no status, complete or error event comes before it.
C9_ConnectedFirst ==
    \A c \in Conns :
        conns[c].status = "open" =>
            /\ Len(conns[c].log) >= 1
            /\ conns[c].log[1] = ConnectedEvent
            /\ \A i \in 2..Len(conns[c].log) : conns[c].log[i].type # "connected"

\* a connection accepted while the workflow of its session was running
C9_Witness ==
    \E r \in Reqs, c \in Conns :
        /\ conns[c].status = "open" /\ conns[c].sid = reqs[r].body.sessionId
        /\ Tags(conns[c].log) = <<"connected", "executing", "complete">>
        /\ Tags(reqs[r].pubs) = StageOrder

\* C10: when a connection closes, the registry entry of its session id is gone;
\* a publish that finds no entry writes nothing; and a workflow in flight at the
\* close is not aborted: it stands where it would stand, has called and
\* answered what it would have, had the connection stayed.
C10_CloseInFlight ==
    /\ [][/\ \A c \in Conns :
                (conns[c].status = "open" /\ conns'[c].status = "closed") =>
                    /\ ~MapHas(sseClients', conns[c].sid)
                    /\ \A r \in Reqs :
                          Outcome(reqs'[r]) = Outcome(reqs[r])
          /\ \A r \in Reqs :
                (Publishes(r) /\ reqs[r].lost /\ Unregistered(reqs[r].body.sessionId)) =>
                    conns' = conns]_vars
    /\ [](\A r \in Reqs :
             reqs[r].lost => /\ Outcome(reqs[r]) = Outcome(Replay(reqs[r]))
                             /\ ~reqs[r].escaped)

\* the connection closed after status/researching; the issue was created
C10_Witness ==
    \E r \in Reqs :
        /\ Done(reqs[r]) /\ reqs[r].lost
        /\ reqs[r].resp.status = 200
        /\ reqs[r].resp.body.summary.successfulActions = 1
        /\ reqs[r].calls.action = 1
        /\ \A c \in Conns : conns[c].status # "open"

\* C11: for every request body and every collaborator outcome the handler
\* sends exactly one response and lets no exception escape: the response of a
\* success is {success: true, sessionId, research, actions, summary}, and the
\* response of a workflow failure (any failure but the rejection of an empty
\* query) is {success: false, error, details} with a failure status.
C11_SingleResponse ==
    \A r \in Reqs :
        LET q == reqs[r]
        IN  /\ q.sent = (IF Done(q) THEN 1 ELSE 0)
            /\ ~q.escaped
            /\ (Done(q) /\ q.resp.status = 200) =>
                  /\ DOMAIN q.resp.body =
                        {"success", "sessionId", "research", "actions", "summary"}
                  /\ q.resp.body.success = TRUE
            /\ (Done(q) /\ q.resp # ValidationResponse /\ q.resp.status # 200) =>
                  /\ q.resp.status >= 400
                  /\ DOMAIN q.resp.body = {"success", "error", "details"}
                  /\ q.resp.body.success = FALSE

\* the request got its session id from `session_${Date.now()}`
Generated(q) == Started(q) /\ ~HasSession(q)

\* C12: a request without a session id is answered with a generated one, and
\* the ids generated for two distinct requests differ; a request with a session
\* id is answered with that id.
C12_SessionIds ==
    /\ \A r \in Reqs :
          LET q == reqs[r]
          IN  (Done(q) /\ q.resp.status = 200) =>
                 /\ HasSession(q) => q.resp.body.sessionId = Str(q.body.sessionId)
                 /\ Generated(q) => /\ q.resp.body.sessionId = q.sessionId
                                     /\ q.sessionId[1] = "session_"
    /\ \A r1, r2 \in Reqs :
          (r1 # r2 /\ Generated(reqs[r1]) /\ Generated(reqs[r2])) =>
              reqs[r1].sessionId # reqs[r2].sessionId

\* the request entered the executing stage: the issue content came back and
\* status/executing was published if the request has a session id
ReachedExecuting(q) == q.outs.issue.kind = "returned"

\* C13: a workflow fails only before the executing stage: a request that has
\* published status/executing ends with a complete event and a 200 response
\* with success: true, whatever the githubRepo of its body and whatever the
\* action collaborator does; a request answered with a failure never reached
\* the executing stage.
C13_NoFailureAfterExecuting ==
    \A r \in Reqs :
        LET q == reqs[r]
            t == Tags(q.pubs)
        IN  /\ (Done(q) /\ ReachedExecuting(q)) =>
                  /\ q.resp.status = 200
                  /\ q.resp.body.success = TRUE
                  /\ HasSession(q) => t = StageOrder
            /\ (\E i \in 1..Len(t) : t[i] = "executing") =>
                  /\ \A i \in 1..Len(t) : t[i] # "error"
                  /\ q.pc \in {"action", "done"}
            /\ (Done(q) /\ q.resp.status # 200) => ~ReachedExecuting(q)

\* C14: when the issue formatting raises, the workflow ends there: the
\* operation was called once, the action collaborator never, the response is
\* 500 with success: false and the raised message as details, and a request
\* with a session id has published error right after status/planning, with the
\* raised message and without a status/executing event.
C14_IssueFormatFatal ==
    \A r \in Reqs :
        LET q == reqs[r]
            out == q.outs.issue
        IN  out.kind = "raised" =>
              /\ Done(q)
              /\ q.calls.issue = 1
              /\ q.calls.action = 0
              /\ q.resp.status = 500
              /\ q.resp.body.success = FALSE
              /\ q.resp.body.details = out.message
              /\ HasSession(q) =>
                    /\ Tags(q.pubs) = <<"analyzing", "researching", "planning", "error">>
                    /\ q.pubs[4].message = out.message

\* the formatting failure reached the session's connection after planning
C14_Witness ==
    \E r \in Reqs, c \in Conns :
        /\ Done(reqs[r]) /\ reqs[r].outs.issue.kind = "raised"
        /\ reqs[r].resp.status = 500
        /\ conns[c].status = "open" /\ conns[c].sid = reqs[r].body.sessionId
        /\ Tags(conns[c].log) = <<"connected", "analyzing", "researching", "planning", "error">>
        /\ conns[c].log[5].message = Str("issue formatting failed")

Slashes(d) == {k \in 1..Len(d) : d[k] = "/"}

C16_ActionNeverRaises ==
    \A r \in Reqs :
        LET q == reqs[r]
        IN  q.outs.run # <<>> =>
              /\ Done(q) /\ q.resp.status = 200
              /\ Len(q.actions) = 1
              /\ LET a == q.actions[1]
                 IN  /\ a.type = "github_issue" /\ a.platform = "github"
                     /\ a.success =>
                           /\ "result" \in DOMAIN a /\ "error" \notin DOMAIN a
                           /\ q.outs.run = <<"rows", "ok">>
                     /\ ~a.success =>
                           /\ "error" \in DOMAIN a /\ "result" \notin DOMAIN a
                           /\ a.error # <<>>
                           /\ q.outs.run # <<"rows", "ok">>

\* a network error of the issue-creation call, returned as a failed result
C16_Witness ==
    \E r \in Reqs :
        /\ Done(reqs[r])
        /\ reqs[r].outs.run = <<"rows", "network">>
        /\ reqs[r].actions =
              <<FailedAction(Str("Network error: Unable to reach GitHub API via Pica"))>>

\* C17: an open connection that is the latest registration of its session id
\* stays registered until that connection closes: no step that leaves it open
\* and registers no new connection takes its entry away, the close of an older
\* connection of the same id included.
C17_NewerStaysRegistered ==
    [][\A c \in Conns :
          (/\ conns[c].status = "open"
           /\ MapGet(sseClients, conns[c].sid) = c
           /\ conns'[c].status = "open"
           /\ \A d \in Conns : conns[d].status = "unused" => conns'[d].status = "unused") =>
              MapGet(sseClients', conns[c].sid) = c]_vars

\* C18: in the submit flow of the browser client the session is registered
\* before the workflow publishes: while the EventSource has neither lost its
\* connection nor been closed by the client, every event the client's workflow
\* has published, from status/analyzing on, has been written to the client's
\* connection, whichever of the GET and the POST the server handles first.
C18_ClientReceivesEveryEvent ==
    (app.post \in {"pending", "answered"} /\ ~app.dropped /\ app.es # "closed") =>
        /\ app.es = "open"
        /\ MapGet(sseClients, app.sessionId) = app.conn
        /\ Tags(conns[app.conn].log) = <<"connected">> \o Tags(reqs[app.req].pubs)

\* C19: once the server has answered the POST and the client has handled the
\* answer and every event its connection holds, the client is no longer in the
\* loading state, whether or not complete or error was among these events.
C19_ClientLeavesLoading ==
    (/\ app.post = "answered"
     /\ app.es = "open"
     /\ app.seen = Len(conns[app.conn].log)) => ~app.loading

\* the request went past the research stage: it called the issue formatting
PastResearch(q) == q.calls.issue > 0

\* C20 as claimed: a 200 response carries a research result with status
\* completed and summary.researchCompleted true, and the planning and executing
\* stages and the action collaborator are reached only with status completed.
C20_SuccessMeansCompleted ==
    \A r \in Reqs :
        LET q == reqs[r]
        IN  /\ (Done(q) /\ q.resp.status = 200) =>
                  /\ q.resp.body.research.status = "completed"
                  /\ q.resp.body.summary.researchCompleted
            /\ (PastResearch(q) \/ q.calls.action > 0) =>
                  q.outs.research.status = "completed"

\* C20, amended: the planning and executing stages and the action collaborator
\* are reached only with a research result whose status is not failed
\* (completed or pending); a 200 response carries that result, and
\* summary.researchCompleted is true exactly when its status is completed.
C20_SuccessMeansNotFailed ==
    \A r \in Reqs :
        LET q == reqs[r]
            out == q.outs.research
            t == Tags(q.pubs)
        IN  /\ (\/ PastResearch(q) \/ q.calls.action > 0
                 \/ \E i \in 1..Len(t) : t[i] \in {"planning", "executing", "complete"}
                 \/ (Done(q) /\ q.resp.status = 200)) =>
                  /\ out.kind = "returned"
                  /\ out.status \in {"completed", "pending"}
            /\ (Done(q) /\ q.resp.status = 200) =>
                  /\ q.resp.body.research.status = out.status
                  /\ q.resp.body.research.findings = out.findings
                  /\ q.resp.body.summary.researchCompleted = (out.status = "completed")

\* a pending research result went through to an issue and a 200 response
C20_Witness ==
    \E r \in Reqs :
        /\ Done(reqs[r]) /\ reqs[r].resp.status = 200
        /\ reqs[r].outs.research.status = "pending"
        /\ reqs[r].calls.action = 1
        /\ reqs[r].resp.body.success
        /\ ~reqs[r].resp.body.summary.researchCompleted

\* C21: the registry never holds the channel of a closed connection, and
\* nothing is written to a closed connection: every entry's channel belongs to
\* a connection that is open, and a connection that has closed is in no entry
\* and has received nothing since it closed.
C21_NoClosedChannel ==
    /\ \A i \in 1..Len(sseClients) : conns[sseClients[i].val].status = "open"
    /\ \A c \in Conns :
          conns[c].status = "closed" =>
              /\ \A i \in 1..Len(sseClients) : sseClients[i].val # c
              /\ conns[c].log = <<>>

\* a connection closed under a running workflow, whose later events went to
\* the connection that registered the session id after it
C21_Witness ==
    \E r \in Reqs, c, d \in Conns :
        /\ conns[c].status = "closed"
        /\ conns[d].status = "open" /\ MapGet(sseClients, conns[d].sid) = d
        /\ reqs[r].lost /\ Done(reqs[r])
        /\ reqs[r].body.sessionId = conns[d].sid
        /\ Len(conns[d].log) > 1

\* C22: once the client has handled the terminal event of its workflow, complete
\* or error, its EventSource is closed, and when the server has seen that
\* connection close the registry has no entry of the session, with no further
\* submit.
C22_StreamClosedAfterTerminal ==
    app.terminal # "none" =>
        /\ app.es = "closed"
        /\ conns[app.conn].status = "closed" => ~MapHas(sseClients, app.sessionId)

====
